---- MODULE Spec2Model ----
(***************************************************************************)
(* Model of the audio service gateway:                                     *)
(*   - functions/transcription.py: the lazily loaded Whisper handle, the   *)
(*     local engine (transcribe_with_whisper), the remote engine           *)
(*     (transcribe_audio) and the fallback orchestrator                    *)
(*     (transcribe_with_fallback);                                         *)
(*   - routes/voice_routes.py: the Voice table handlers.                   *)
(* Strings that the code builds with f-strings are sequences of tokens, so *)
(* that "the message contains X" is a statement about sub-sequences.       *)
(***************************************************************************)
EXTENDS Integers, Sequences, FiniteSets, TLC

\* ------------------------------------------------------------------ bounds
MaxItems == 2
MaxSegs == 2
MaxCalls == 2
MaxCreates == 2

\* The request threads that may run transcribe_with_fallback.
Procs == {1, 2}

\* Audio inputs: a byte buffer with its file name.
Items == { [content |-> "A", filename |-> "a.mp3"],
           [content |-> "B", filename |-> "b.wav"] }

WhisperModelNames == {"turbo", "base"}
ElevenModelNames == {"scribe_v1"}

None == "None"

VARIABLES
    whisper_model,  \* module global: None or the name of the model loaded into the handle
    loadCount,      \* number of whisper.load_model calls that returned a model
    tempFiles,      \* number of temporary files present on disk
    calls,          \* number of transcribe_with_fallback calls started
    frame,          \* per request thread: the locals of transcribe_with_fallback
    voices,         \* the voices table: id -> row
    nextId,         \* the next primary key the table hands out
    apilogs,        \* the rows of the audit table, oldest first
    remoteCalls,    \* number of calls made to the remote voice service
    pendingDelete,  \* delete_voice between its commit and its remote call: the row, or NoVoice
    deleteCalled,   \* ids on which delete_voice found a row
    vret            \* the response of the voice handler that ended last

tvars == <<whisper_model, loadCount, tempFiles, calls, frame>>
vvars == <<voices, nextId, apilogs, remoteCalls, pendingDelete, deleteCalled, vret>>
vars == <<tvars, vvars>>

\* ------------------------------------------------------------- strings
RECURSIVE Concat(_)
Concat(parts) ==
    IF parts = <<>> THEN <<>> ELSE Head(parts) \o Concat(Tail(parts))

\* Python's `sub in s` for token sequences.
Contains(s, sub) ==
    \E i \in 1..(Len(s) - Len(sub) + 1) : SubSeq(s, i, i + Len(sub) - 1) = sub

\* ---------------------------------------------------------- exceptions
NoError == [kind |-> "none", detail |-> <<>>]

\* A plain Python exception raised by a collaborator: str(e) is its message.
PlainException(msg) == [kind |-> "Exception", detail |-> msg]

\* fastapi.HTTPException(status_code=500, detail=...).
HTTPException(detail) == [kind |-> "HTTPException", detail |-> detail]

\* str(e): the message of a plain exception; "500: <detail>" for an HTTPException.
Str(e) ==
    IF e.kind = "HTTPException" THEN <<"500", ": ">> \o e.detail ELSE e.detail

\* The failure messages of the collaborators.
LoadErrorMsg == <<"cannot load model">>
TempFileErrorMsg == <<"cannot write temp file">>
InferenceErrorMsg == <<"cannot decode audio">>
RemoteErrorMsg == <<"503 Server Error">>

\* ------------------------------------------------------- the two engines
TextOf(content) == <<"text", content>>

\* The i-th segment of a Whisper output.
Segment(i) == [text |-> <<"seg", i>>, start |-> 2 * (i - 1), end |-> 2 * i - 1]

\* model.transcribe(temp_path): the engine's output with k segments.
WhisperOutput(content, k) ==
    [text |-> TextOf(content), language |-> "en",
     segments |-> [i \in 1..k |-> Segment(i)]]

\* Mutant of SegmentToWord: the word ends where its segment starts.
SegmentToWordNoEnd(segment) ==
    [text |-> segment.text, type |-> "word", start |-> segment.start,
     end |-> segment.start, speaker_id |-> "0"]

\* One word entry of the normalised result.
SegmentToWord(segment) ==
    [text |-> segment.text, type |-> "word", start |-> segment.start,
     end |-> segment.end, speaker_id |-> "0"]

\* The loop that fills transcription_result["words"].
SegmentsToWords(segments) ==
    [i \in 1..Len(segments) |-> SegmentToWord(segments[i])]

\* The dictionary transcribe_with_whisper builds from the engine's output.
TranscriptionResult(result, model_name) ==
    [text |-> result.text,
     language_code |-> result.language,
     language_probability |-> 1,
     words |-> SegmentsToWords(result.segments),
     segments |-> result.segments,
     confidence |-> 1,
     engine |-> "whisper",
     model |-> model_name]

\* response.json() of the remote speech-to-text endpoint.
ElevenResponse(content) ==
    [text |-> TextOf(content), language_code |-> "en", language_probability |-> 1,
     words |-> << [text |-> TextOf(content), type |-> "word", start |-> 0, end |-> 1,
                   speaker_id |-> "speaker_0"] >>]

\* Mutant of TagEleven: the two tags are assigned to each other's key.
TagElevenSwapped(result, eleven_model) ==
    [k \in (DOMAIN result) \cup {"engine", "model"} |->
        IF k = "engine" THEN eleven_model
        ELSE IF k = "model" THEN "elevenlabs"
        ELSE result[k]]

\* result["engine"] = "elevenlabs"; result["model"] = eleven_model
TagEleven(result, eleven_model) ==
    [k \in (DOMAIN result) \cup {"engine", "model"} |->
        IF k = "engine" THEN "elevenlabs"
        ELSE IF k = "model" THEN eleven_model
        ELSE result[k]]

\* The detail of the error raised by transcribe_with_whisper's except clause.
WhisperErrorDetail(msg) == <<"Failed to transcribe audio with Whisper: ">> \o msg

\* The detail of the error raised by transcribe_audio's except clause.
ElevenErrorDetail(msg) == <<"Failed to transcribe audio: ">> \o msg

\* Mutant of AggregateDetail: only the remote error is embedded.
AggregateDetailRemoteOnly(whisper_error, eleven_error) ==
    Concat(<< <<"Transcription failed with both engines. ElevenLabs: ">>,
              Str(eleven_error) >>)

\* The detail of the error raised when both engines failed.
AggregateDetail(whisper_error, eleven_error) ==
    Concat(<< <<"Transcription failed with both engines. Whisper: ">>,
              Str(whisper_error), <<". ElevenLabs: ">>, Str(eleven_error) >>)

\* ---------------------------------------------------------------- frames
IdleFrame ==
    [pc |-> "idle", audio_contents |-> <<>>, filenames |-> <<>>,
     single_input |-> FALSE, model_name |-> "turbo", eleven_model |-> "scribe_v1",
     results |-> <<>>, idx |-> 1, model |-> None, whisper_error |-> NoError,
     log |-> <<>>, ret |-> [kind |-> "none", value |-> <<>>]]

\* Lists of at most MaxItems inputs.
ItemLists == UNION { [1..n -> Items] : n \in 0..MaxItems }

\* The engine log of a call (history): one entry per engine invocation, with
\* the item it was for, how it ended, and what the engine gave back (the
\* segments of a local success, the message of a failure).
\* The last entry of the engine log gets its outcome.
SetLast(log, status, out) ==
    [log EXCEPT ![Len(log)] = [@ EXCEPT !.status = status, !.out = out]]

TInit ==
    /\ whisper_model = None
    /\ loadCount = 0
    /\ tempFiles = 0
    /\ calls = 0
    /\ frame = [p \in Procs |-> IdleFrame]

\* ------------------------------------------------------- the voices table
Projects == {"p1", "p2"}
ProjectIds == Projects \cup {"p0"}
Names == {"N", "X"}
Descriptions == {None, "desc"}
Labels == {"lbl"}
VoiceIds == 1..(MaxCreates + 1)

\* Python's None where a row of the voices table is expected.
NoVoice ==
    [id |-> 0, name |-> None, description |-> None, voice_id |-> <<>>,
     label |-> None, project_id |-> None]

NoResponse == [handler |-> "none", status |-> 0, body |-> <<>>]

VInit ==
    /\ voices = <<>>
    /\ nextId = 1
    /\ apilogs = <<>>
    /\ remoteCalls = 0
    /\ pendingDelete = NoVoice
    /\ deleteCalled = {}
    /\ vret = NoResponse

Init == TInit /\ VInit

\* ------------------------------------------- transcribe_with_fallback
\* Entry with a single buffer and file name: both are wrapped in lists.
StartSingle(p, item, model_name, eleven_model) ==
    [IdleFrame EXCEPT !.pc = "loop",
                      !.audio_contents = <<item.content>>,
                      !.filenames = <<item.filename>>,
                      !.single_input = TRUE,
                      !.model_name = model_name,
                      !.eleven_model = eleven_model]

\* Entry with lists of buffers and file names.
StartList(p, items, model_name, eleven_model) ==
    [IdleFrame EXCEPT !.pc = "loop",
                      !.audio_contents = [i \in 1..Len(items) |-> items[i].content],
                      !.filenames = [i \in 1..Len(items) |-> items[i].filename],
                      !.single_input = FALSE,
                      !.model_name = model_name,
                      !.eleven_model = eleven_model]

CallSingle(p) ==
    /\ frame[p].pc = "idle"
    /\ calls < MaxCalls
    /\ \E item \in Items, mn \in WhisperModelNames, em \in ElevenModelNames :
          frame' = [frame EXCEPT ![p] = StartSingle(p, item, mn, em)]
    /\ calls' = calls + 1
    /\ UNCHANGED <<whisper_model, loadCount, tempFiles, vvars>>

CallList(p) ==
    /\ frame[p].pc = "idle"
    /\ calls < MaxCalls
    /\ \E items \in ItemLists, mn \in WhisperModelNames, em \in ElevenModelNames :
          frame' = [frame EXCEPT ![p] = StartList(p, items, mn, em)]
    /\ calls' = calls + 1
    /\ UNCHANGED <<whisper_model, loadCount, tempFiles, vvars>>

\* zip(audio_contents, filenames) still has an element at position idx.
HasNext(f) == f.idx <= Len(f.audio_contents) /\ f.idx <= Len(f.filenames)

\* Mutant of NeedsLoad: the model is loaded on every call.
NeedsLoadAlways(handle) == TRUE

\* get_whisper_model's test of the global handle.
NeedsLoad(handle) == handle = None

\* The loop takes the next item and calls transcribe_with_whisper, which first
\* asks get_whisper_model for the handle.
LoopNext(p) ==
    LET f == frame[p] IN
    /\ f.pc = "loop"
    /\ HasNext(f)
    /\ frame' = [frame EXCEPT ![p] =
          [f EXCEPT !.pc = IF NeedsLoad(whisper_model) THEN "load" ELSE "transcribe",
                    !.model = whisper_model,
                    !.log = Append(@, [engine |-> "whisper", item |-> f.idx,
                                       status |-> "running", out |-> <<>>])]]
    /\ UNCHANGED <<whisper_model, loadCount, tempFiles, calls, vvars>>

\* whisper.load_model returns: the global handle is set and returned.
LoadOk(p) ==
    LET f == frame[p] IN
    /\ f.pc = "load"
    /\ whisper_model' = f.model_name
    /\ loadCount' = loadCount + 1
    /\ frame' = [frame EXCEPT ![p] = [f EXCEPT !.pc = "transcribe", !.model = f.model_name]]
    /\ UNCHANGED <<tempFiles, calls, vvars>>

\* Mutant of WhisperRaised: the local error leaves transcribe_with_fallback.
WhisperRaisedSurfaced(f, error) ==
    [f EXCEPT !.pc = "raised", !.whisper_error = error,
              !.ret = [kind |-> "raise", value |-> error]]

\* Mutant of WhisperRaised: the local engine is tried again on the item.
WhisperRaisedRetry(f, error) ==
    [f EXCEPT !.pc = "loop", !.whisper_error = error]

\* The frame after the local attempt on the current item raised `error`.
WhisperRaised(f, error) ==
    [f EXCEPT !.pc = "fallback", !.whisper_error = error]

\* whisper.load_model raises: the error is logged and re-raised as it is, the
\* global handle stays None.
LoadFail(p) ==
    LET f == frame[p] IN
    /\ f.pc = "load"
    /\ frame' = [frame EXCEPT ![p] =
          [WhisperRaised(f, PlainException(LoadErrorMsg))
              EXCEPT !.log = SetLast(@, "failed", LoadErrorMsg)]]
    /\ UNCHANGED <<whisper_model, loadCount, tempFiles, calls, vvars>>

\* Creating or opening the temporary file fails: no file is left.
TempFileFail(p) ==
    LET f == frame[p] IN
    /\ f.pc = "transcribe"
    /\ frame' = [frame EXCEPT ![p] =
          [WhisperRaised(f, HTTPException(WhisperErrorDetail(TempFileErrorMsg)))
              EXCEPT !.log = SetLast(@, "failed", TempFileErrorMsg)]]
    /\ UNCHANGED <<whisper_model, loadCount, tempFiles, calls, vvars>>

\* model.transcribe raises after the temporary file was written (delete=False):
\* os.unlink is skipped.
InferenceFail(p) ==
    LET f == frame[p] IN
    /\ f.pc = "transcribe"
    /\ tempFiles' = tempFiles + 1
    /\ frame' = [frame EXCEPT ![p] =
          [WhisperRaised(f, HTTPException(WhisperErrorDetail(InferenceErrorMsg)))
              EXCEPT !.log = SetLast(@, "failed", InferenceErrorMsg)]]
    /\ UNCHANGED <<whisper_model, loadCount, calls, vvars>>

\* transcribe_with_whisper's return value.
WhisperReturn(results) == IF Len(results) = 1 THEN results[1] ELSE results

\* The frame after the current item got `result`: results.append(result).
ItemDone(f, result) ==
    [f EXCEPT !.pc = "loop", !.results = Append(@, result), !.idx = @ + 1]

\* The local engine transcribes the item: the file is written, transcribed and
\* unlinked, and the normalised result is returned to the fallback loop.
TranscribeOk(p) ==
    LET f == frame[p] IN
    /\ f.pc = "transcribe"
    /\ \E k \in 0..MaxSegs :
          LET out == WhisperOutput(f.audio_contents[f.idx], k)
              result == WhisperReturn(<<TranscriptionResult(out, f.model_name)>>)
          IN frame' = [frame EXCEPT ![p] =
                [ItemDone(f, result) EXCEPT !.log = SetLast(@, "ok", out.segments)]]
    /\ UNCHANGED <<whisper_model, loadCount, tempFiles, calls, vvars>>

\* The remote engine answers: the result is tagged and appended.
RemoteOk(p) ==
    LET f == frame[p] IN
    /\ f.pc = "fallback"
    /\ frame' = [frame EXCEPT ![p] =
          [ItemDone(f, TagEleven(ElevenResponse(f.audio_contents[f.idx]), f.eleven_model))
              EXCEPT !.log = Append(@, [engine |-> "elevenlabs", item |-> f.idx,
                                        status |-> "ok", out |-> <<>>])]]
    /\ UNCHANGED <<whisper_model, loadCount, tempFiles, calls, vvars>>

\* Mutant of BothFailed: the failed item gets an empty result and the loop
\* goes on with the next item.
BothFailedSkipped(f, eleven_error) ==
    [f EXCEPT !.pc = "loop", !.idx = @ + 1,
              !.results = Append(@, [text |-> <<>>, engine |-> "none"])]

\* The frame after both engines failed on the current item: the aggregate
\* error leaves transcribe_with_fallback.
BothFailed(f, eleven_error) ==
    [f EXCEPT !.pc = "raised",
              !.ret = [kind |-> "raise",
                       value |-> HTTPException(AggregateDetail(f.whisper_error, eleven_error))]]

\* The remote engine fails too.
RemoteFail(p) ==
    LET f == frame[p] IN
    /\ f.pc = "fallback"
    /\ frame' = [frame EXCEPT ![p] =
          [BothFailed(f, HTTPException(ElevenErrorDetail(RemoteErrorMsg)))
              EXCEPT !.log = Append(@, [engine |-> "elevenlabs", item |-> f.idx,
                                        status |-> "failed", out |-> RemoteErrorMsg])]]
    /\ UNCHANGED <<whisper_model, loadCount, tempFiles, calls, vvars>>

\* Mutant of FallbackReturn: unwraps by length, as transcribe_with_whisper does.
FallbackReturnByLength(f) ==
    IF Len(f.results) = 1 THEN [kind |-> "dict", value |-> f.results[1]]
    ELSE [kind |-> "list", value |-> f.results]

\* results[0] if single_input else results
FallbackReturn(f) ==
    IF f.single_input THEN [kind |-> "dict", value |-> f.results[1]]
    ELSE [kind |-> "list", value |-> f.results]

\* The loop is exhausted: the function returns.
Return(p) ==
    LET f == frame[p] IN
    /\ f.pc = "loop"
    /\ ~HasNext(f)
    /\ frame' = [frame EXCEPT ![p] = [f EXCEPT !.pc = "returned", !.ret = FallbackReturn(f)]]
    /\ UNCHANGED <<whisper_model, loadCount, tempFiles, calls, vvars>>

\* The caller has taken the return value or the error: the frame is gone.
Finish(p) ==
    /\ frame[p].pc \in {"returned", "raised"}
    /\ frame' = [frame EXCEPT ![p] = IdleFrame]
    /\ UNCHANGED <<whisper_model, loadCount, tempFiles, calls, vvars>>

\* Requests are served one after the other.
NoOtherCall == \A q \in Procs : frame[q].pc = "idle"

Next ==
    \E p \in Procs :
        \/ NoOtherCall /\ CallSingle(p)
        \/ NoOtherCall /\ CallList(p)
        \/ LoopNext(p)
        \/ LoadOk(p)
        \/ LoadFail(p)
        \/ TempFileFail(p)
        \/ InferenceFail(p)
        \/ TranscribeOk(p)
        \/ RemoteOk(p)
        \/ RemoteFail(p)
        \/ Return(p)
        \/ Finish(p)

Spec == Init /\ [][Next]_vars

\* Requests served by concurrent threads: the route hands each request's one
\* file to transcribe_with_fallback, and the steps of the threads interleave.
ConcNext ==
    \E p \in Procs :
        \/ CallSingle(p)
        \/ LoopNext(p)
        \/ LoadOk(p)
        \/ LoadFail(p)
        \/ TempFileFail(p)
        \/ InferenceFail(p)
        \/ TranscribeOk(p)
        \/ RemoteOk(p)
        \/ RemoteFail(p)
        \/ Return(p)
        \/ Finish(p)

ConcSpec == Init /\ [][ConcNext]_vars

\* ------------------------------------------------------------ voice routes
\* db.query(Project).filter(Project.id == project_id).first()
ProjectExists(project_id) == project_id \in Projects

\* db.query(Voice).filter(Voice.id == voice_id).first()
FindVoice(vs, voice_id) == IF voice_id \in DOMAIN vs THEN vs[voice_id] ELSE NoVoice

\* db.query(Voice).filter(Voice.project_id == project_id).all()
VoicesOfProject(vs, project_id) ==
    { vs[i] : i \in { j \in DOMAIN vs : vs[j].project_id = project_id } }

\* db.add(new_voice); db.commit()
DbInsert(vs, row) == [i \in (DOMAIN vs) \cup {row.id} |-> IF i = row.id THEN row ELSE vs[i]]

\* Mutant of DbRename: the update has no filter on the id.
DbRenameAll(vs, voice_id, name) == [i \in DOMAIN vs |-> [vs[i] EXCEPT !.name = name]]

\* voice.name = request.name; db.commit()
DbRename(vs, voice_id, name) == [vs EXCEPT ![voice_id].name = name]

\* Mutant of DbDelete: the deletion is never committed.
DbDeleteNotCommitted(vs, voice_id) == vs

\* db.delete(voice); db.commit()
DbDelete(vs, voice_id) == [i \in (DOMAIN vs) \ {voice_id} |-> vs[i]]

Apilog(result) ==
    [user_id |-> "u1", endpoint |-> "VoiceCreate", result |-> result, cost |-> "VOICE_CREATE"]

NotFound(handler, what) == [handler |-> handler, status |-> 404, body |-> what]

\* create_voice for a project that does not exist.
CreateNoProject(project_id) ==
    /\ ~ProjectExists(project_id)
    /\ vret' = NotFound("create_voice", "Project not found")
    /\ UNCHANGED <<voices, nextId, apilogs, remoteCalls, pendingDelete, deleteCalled, tvars>>

\* create_voice when client.voices.add raises.
CreateRemoteFail(project_id) ==
    /\ ProjectExists(project_id)
    /\ Len(apilogs) < MaxCreates
    /\ remoteCalls' = remoteCalls + 1
    /\ apilogs' = Append(apilogs, Apilog("error"))
    /\ vret' = [handler |-> "create_voice", status |-> 500,
                body |-> <<"Error calling ElevenLabs: ">> \o RemoteErrorMsg]
    /\ UNCHANGED <<voices, nextId, pendingDelete, deleteCalled, tvars>>

\* resp.voice_id of the n-th call to the remote voice service.
RemoteVoiceId(n) == <<"elv", n>>

\* Mutant of CreateNoVoiceId: the row is stored before the response is looked at.
CreateNoVoiceIdPersisted(project_id) ==
    /\ ProjectExists(project_id)
    /\ Len(apilogs) < MaxCreates
    /\ remoteCalls' = remoteCalls + 1
    /\ apilogs' = Append(apilogs, Apilog("error"))
    /\ voices' = DbInsert(voices, [id |-> nextId, name |-> "N", description |-> None,
                                   voice_id |-> <<>>, label |-> "lbl",
                                   project_id |-> project_id])
    /\ nextId' = nextId + 1
    /\ vret' = [handler |-> "create_voice", status |-> 500,
                body |-> <<"ElevenLabs response did not contain a voice_id">>]
    /\ UNCHANGED <<pendingDelete, deleteCalled, tvars>>

\* create_voice when the remote response has no voice_id attribute.
CreateNoVoiceId(project_id) ==
    /\ ProjectExists(project_id)
    /\ Len(apilogs) < MaxCreates
    /\ remoteCalls' = remoteCalls + 1
    /\ apilogs' = Append(apilogs, Apilog("error"))
    /\ vret' = [handler |-> "create_voice", status |-> 500,
                body |-> <<"ElevenLabs response did not contain a voice_id">>]
    /\ UNCHANGED <<voices, nextId, pendingDelete, deleteCalled, tvars>>

\* The row create_voice builds from the form and the remote voice_id.
NewVoice(id, voice_name, description, voice_id, label, project_id) ==
    [id |-> id, name |-> voice_name, description |-> description,
     voice_id |-> voice_id, label |-> label, project_id |-> project_id]

\* create_voice when the remote service returns a voice_id.
CreateOk(project_id, voice_name, description, label) ==
    /\ ProjectExists(project_id)
    /\ Len(apilogs) < MaxCreates
    /\ remoteCalls' = remoteCalls + 1
    /\ LET new_voice == NewVoice(nextId, voice_name, description,
                                 RemoteVoiceId(remoteCalls + 1), label, project_id)
       IN /\ apilogs' = Append(apilogs, Apilog("ok"))
          /\ voices' = DbInsert(voices, new_voice)
          /\ vret' = [handler |-> "create_voice", status |-> 200, body |-> new_voice]
    /\ nextId' = nextId + 1
    /\ UNCHANGED <<pendingDelete, deleteCalled, tvars>>

\* get_voices
GetVoices(project_id) ==
    /\ vret' = IF ProjectExists(project_id)
               THEN [handler |-> "get_voices", status |-> 200,
                     body |-> VoicesOfProject(voices, project_id)]
               ELSE NotFound("get_voices", "Project not found")
    /\ UNCHANGED <<voices, nextId, apilogs, remoteCalls, pendingDelete, deleteCalled, tvars>>

\* rename_voice
RenameVoice(voice_id, name) ==
    LET voice == FindVoice(voices, voice_id) IN
    /\ IF voice = NoVoice
       THEN /\ vret' = NotFound("rename_voice", "Voice not found")
            /\ UNCHANGED voices
       ELSE /\ voices' = DbRename(voices, voice_id, name)
            /\ vret' = [handler |-> "rename_voice", status |-> 200,
                        body |-> FindVoice(voices', voice_id)]
    /\ UNCHANGED <<nextId, apilogs, remoteCalls, pendingDelete, deleteCalled, tvars>>

\* delete_voice for an id that has no row.
DeleteNotFound(voice_id) ==
    /\ FindVoice(voices, voice_id) = NoVoice
    /\ vret' = NotFound("delete_voice", "Voice not found")
    /\ UNCHANGED <<voices, nextId, apilogs, remoteCalls, pendingDelete, deleteCalled, tvars>>

\* delete_voice up to its commit: the row is deleted and the deletion committed.
DeleteCommit(voice_id) ==
    LET voice == FindVoice(voices, voice_id) IN
    /\ pendingDelete = NoVoice
    /\ voice # NoVoice
    /\ voices' = DbDelete(voices, voice_id)
    /\ pendingDelete' = voice
    /\ deleteCalled' = deleteCalled \cup {voice_id}
    /\ UNCHANGED <<nextId, apilogs, remoteCalls, vret, tvars>>

\* delete_voice after its commit: delete_voice_eleven returns.
DeleteRemoteOk ==
    /\ pendingDelete # NoVoice
    /\ remoteCalls' = remoteCalls + 1
    /\ pendingDelete' = NoVoice
    /\ vret' = [handler |-> "delete_voice", status |-> 200, body |-> "Voice deleted successfully"]
    /\ UNCHANGED <<voices, nextId, apilogs, deleteCalled, tvars>>

\* delete_voice after its commit: delete_voice_eleven raises, and the error
\* leaves the handler.
DeleteRemoteFail ==
    /\ pendingDelete # NoVoice
    /\ remoteCalls' = remoteCalls + 1
    /\ pendingDelete' = NoVoice
    /\ vret' = [handler |-> "delete_voice", status |-> 500, body |-> "Failed to delete voice."]
    /\ UNCHANGED <<voices, nextId, apilogs, deleteCalled, tvars>>

VNext ==
    \/ \E project_id \in ProjectIds : CreateNoProject(project_id)
    \/ \E project_id \in ProjectIds : CreateRemoteFail(project_id)
    \/ \E project_id \in ProjectIds : CreateNoVoiceId(project_id)
    \/ \E project_id \in ProjectIds, voice_name \in Names,
          description \in Descriptions, label \in Labels :
            CreateOk(project_id, voice_name, description, label)
    \/ \E project_id \in ProjectIds : GetVoices(project_id)
    \/ \E voice_id \in VoiceIds, name \in Names : RenameVoice(voice_id, name)
    \/ \E voice_id \in VoiceIds : DeleteNotFound(voice_id)
    \/ \E voice_id \in VoiceIds : DeleteCommit(voice_id)
    \/ DeleteRemoteOk
    \/ DeleteRemoteFail

VoiceSpec == Init /\ [][VNext]_vars

\* ================================================================ claims
\* Readings of the engine log of a frame.
LogIndex(f) == 1..Len(f.log)
LocalOkFor(f, i) ==
    \E k \in LogIndex(f) :
        f.log[k].engine = "whisper" /\ f.log[k].item = i /\ f.log[k].status = "ok"
LocalFailedFor(f, i) ==
    \E k \in LogIndex(f) :
        f.log[k].engine = "whisper" /\ f.log[k].item = i /\ f.log[k].status = "failed"
RemoteOkFor(f, i) ==
    \E k \in LogIndex(f) :
        f.log[k].engine = "elevenlabs" /\ f.log[k].item = i /\ f.log[k].status = "ok"
RemoteFailedFor(f, i) ==
    \E k \in LogIndex(f) :
        f.log[k].engine = "elevenlabs" /\ f.log[k].item = i /\ f.log[k].status = "failed"
InputIndex(f) == 1..Len(f.audio_contents)

\* C1 (as stated): the engine field of an item's result is "local" when the
\* local engine succeeded for the item and "remote" when the local engine
\* failed and the remote engine succeeded.
C1_EngineLocalRemote ==
    \A p \in Procs : \A i \in InputIndex(frame[p]) :
        /\ LocalOkFor(frame[p], i) => frame[p].results[i].engine = "local"
        /\ (LocalFailedFor(frame[p], i) /\ RemoteOkFor(frame[p], i))
              => frame[p].results[i].engine = "remote"

\* C1 (amended): the engine field of an item's result names the engine that
\* produced it: "whisper" when the local engine succeeded for the item,
\* "elevenlabs" when the local engine failed and the remote engine succeeded.
C1_EngineTag ==
    \A p \in Procs : \A i \in InputIndex(frame[p]) :
        /\ LocalOkFor(frame[p], i)
              => /\ i <= Len(frame[p].results)
                 /\ frame[p].results[i].engine = "whisper"
        /\ (LocalFailedFor(frame[p], i) /\ RemoteOkFor(frame[p], i))
              => /\ i <= Len(frame[p].results)
                 /\ frame[p].results[i].engine = "elevenlabs"

C1_Witness ==
    \E p \in Procs :
        /\ frame[p].pc = "returned"
        /\ LocalOkFor(frame[p], 1)
        /\ LocalFailedFor(frame[p], 2) /\ RemoteOkFor(frame[p], 2)

\* C2: when the local engine succeeds for an item, the result's words are one
\* per segment of the engine's output, in the same order, and the i-th word
\* starts and ends where the i-th segment does.
C2_WordsMatchSegments ==
    \A p \in Procs : \A k \in LogIndex(frame[p]) :
        LET e == frame[p].log[k] IN
        (e.engine = "whisper" /\ e.status = "ok")
            => LET words == frame[p].results[e.item].words IN
               /\ Len(words) = Len(e.out)
               /\ \A j \in 1..Len(e.out) :
                     /\ words[j].start = e.out[j].start
                     /\ words[j].end = e.out[j].end
                     /\ words[j].text = e.out[j].text

C2_Witness ==
    \E p \in Procs : \E k \in LogIndex(frame[p]) :
        /\ frame[p].log[k].engine = "whisper"
        /\ frame[p].log[k].status = "ok"
        /\ Len(frame[p].log[k].out) = 2
        /\ Len(frame[p].results[frame[p].log[k].item].words) = 2

\* C3: if the local engine fails for an item (model load, temp file or
\* inference) and the remote engine then succeeds, the item gets the remote
\* engine's result and the call does not fail on that item; a call fails only
\* on an item whose remote attempt failed too.
C3_LocalErrorNotSurfaced ==
    \A p \in Procs :
        LET f == frame[p] IN
        /\ \A i \in InputIndex(f) :
              (LocalFailedFor(f, i) /\ RemoteOkFor(f, i))
                 => /\ i <= Len(f.results)
                    /\ f.results[i].engine = "elevenlabs"
                    /\ f.results[i].text = TextOf(f.audio_contents[i])
                    /\ ~(f.pc = "raised" /\ f.idx = i)
        /\ f.pc = "raised" => RemoteFailedFor(f, f.idx)
        /\ f.pc = "returned" => f.ret.kind \in {"dict", "list"}

C3_Witness ==
    \E p \in Procs :
        /\ frame[p].pc = "returned"
        /\ frame[p].whisper_error = PlainException(LoadErrorMsg)
        /\ LocalFailedFor(frame[p], 1) /\ RemoteOkFor(frame[p], 1)
        /\ frame[p].ret.kind = "dict"
        /\ frame[p].ret.value.engine = "elevenlabs"

\* The message of the failed invocation of `engine` on item i.
FailureMsg(f, engine, i) ==
    LET k == CHOOSE k \in LogIndex(f) :
                f.log[k].engine = engine /\ f.log[k].item = i /\ f.log[k].status = "failed"
    IN f.log[k].out

\* C4: when both engines fail for an item, the call fails with one error
\* whose message contains the local engine's failure message and the remote
\* engine's failure message.
C4_AggregateError ==
    \A p \in Procs :
        LET f == frame[p] IN
        \A i \in InputIndex(f) :
            (LocalFailedFor(f, i) /\ RemoteFailedFor(f, i))
               => /\ f.pc = "raised"
                  /\ f.ret.kind = "raise"
                  /\ f.ret.value.kind = "HTTPException"
                  /\ Contains(f.ret.value.detail, FailureMsg(f, "whisper", i))
                  /\ Contains(f.ret.value.detail, FailureMsg(f, "elevenlabs", i))

C4_Witness ==
    \E p \in Procs :
        /\ frame[p].pc = "raised"
        /\ LocalFailedFor(frame[p], frame[p].idx)
        /\ FailureMsg(frame[p], "whisper", frame[p].idx) = InferenceErrorMsg
        /\ Contains(frame[p].ret.value.detail, InferenceErrorMsg)
        /\ Contains(frame[p].ret.value.detail, RemoteErrorMsg)

\* The number of invocations of `engine` on item i.
Invocations(f, engine, i) ==
    Cardinality({ k \in LogIndex(f) : f.log[k].engine = engine /\ f.log[k].item = i })

\* C5: for each item the local engine is invoked first and exactly once; the
\* remote engine is invoked at most once, directly after the failed local
\* attempt on the same item, and never for an item whose local attempt
\* succeeded; no invocation is repeated.
C5_LocalFirstNoRetry ==
    \A p \in Procs :
        LET f == frame[p] IN
        /\ \A i \in InputIndex(f) :
              /\ Invocations(f, "whisper", i) <= 1
              /\ Invocations(f, "elevenlabs", i) <= 1
              /\ i < f.idx => Invocations(f, "whisper", i) = 1
              /\ LocalOkFor(f, i) => Invocations(f, "elevenlabs", i) = 0
        /\ \A k \in LogIndex(f) :
              /\ f.log[k].item \in InputIndex(f)
              /\ f.log[k].engine = "elevenlabs"
                    => /\ k > 1
                       /\ f.log[k - 1].engine = "whisper"
                       /\ f.log[k - 1].item = f.log[k].item
                       /\ f.log[k - 1].status = "failed"
              /\ (f.log[k].engine = "whisper" /\ k > 1)
                    => f.log[k - 1].item < f.log[k].item

C5_Witness ==
    \E p \in Procs :
        /\ frame[p].pc = "returned"
        /\ Len(frame[p].audio_contents) = 2
        /\ Len(frame[p].log) = 3
        /\ frame[p].log[1].status = "failed"
        /\ frame[p].log[2].engine = "elevenlabs"
        /\ frame[p].log[3].status = "ok"

\* C6: in a multi-item call, if an item fails in both engines the call fails
\* with an error (no result is returned, whatever was transcribed before),
\* and no item after the failing one is given to either engine.
C6_BatchAborts ==
    \A p \in Procs :
        LET f == frame[p] IN
        \A i \in InputIndex(f) :
            (~f.single_input /\ LocalFailedFor(f, i) /\ RemoteFailedFor(f, i))
               => /\ f.pc = "raised"
                  /\ f.ret.kind = "raise"
                  /\ \A k \in LogIndex(f) : f.log[k].item <= i

C6_Witness ==
    \E p \in Procs :
        /\ ~frame[p].single_input
        /\ frame[p].pc = "raised"
        /\ Len(frame[p].audio_contents) = 2
        /\ LocalOkFor(frame[p], 1)
        /\ Len(frame[p].results) = 1
        /\ LocalFailedFor(frame[p], 2) /\ RemoteFailedFor(frame[p], 2)
        /\ frame[p].ret.kind = "raise"

\* C7: a call with a single (non-list) input returns a scalar result; a call
\* with a list of n buffers and their n file names returns a list of exactly
\* n results, the i-th being the transcription of the i-th input, for every
\* n (0 and 1 included) and every mix of local and remote results.
C7_ReturnShape ==
    \A p \in Procs :
        LET f == frame[p] IN
        f.pc = "returned" =>
            IF f.single_input
            THEN /\ f.ret.kind = "dict"
                 /\ f.ret.value.text = TextOf(f.audio_contents[1])
            ELSE /\ f.ret.kind = "list"
                 /\ Len(f.ret.value) = Len(f.audio_contents)
                 /\ \A i \in InputIndex(f) :
                       f.ret.value[i].text = TextOf(f.audio_contents[i])

C7_Witness ==
    \E p \in Procs :
        /\ frame[p].pc = "returned"
        /\ ~frame[p].single_input
        /\ Len(frame[p].ret.value) = 2
        /\ frame[p].audio_contents = <<"B", "A">>
        /\ frame[p].ret.value[1].engine = "elevenlabs"
        /\ frame[p].ret.value[2].engine = "whisper"

\* C8: with calls served one after the other, the engine is not loaded before
\* a call needs it, a load succeeds at most once, every later attempt uses
\* the handle that load left without loading again, and a failed load leaves
\* the handle absent, so the next attempt loads again.
C8_LazySingleLoad ==
    /\ loadCount <= 1
    /\ (whisper_model = None) <=> (loadCount = 0)
    /\ calls = 0 => whisper_model = None
    /\ \A p \in Procs :
          LET f == frame[p] IN
          /\ f.pc = "load" => whisper_model = None
          /\ f.pc = "transcribe" => (f.model = whisper_model /\ f.model # None)
          /\ (f.pc = "fallback" /\ f.whisper_error = PlainException(LoadErrorMsg))
                => whisper_model = None

C8_Witness ==
    \E p \in Procs :
        /\ calls = 2
        /\ loadCount = 1
        /\ frame[p].pc = "transcribe"
        /\ frame[p].idx = 1
        /\ frame[p].model = whisper_model
        /\ frame[p].model_name # whisper_model

\* C9: renaming an existing Voice to a name and reading it back by id gives
\* that name with id, description, voice_id, label and project_id unchanged;
\* the rename changes no other row, adds or removes none, and calls the
\* remote service not at all.
C9_RenameThenGet ==
    [][\A voice_id \in VoiceIds, name \in Names :
          (RenameVoice(voice_id, name) /\ FindVoice(voices, voice_id) # NoVoice)
             => LET old == FindVoice(voices, voice_id)
                    new == FindVoice(voices', voice_id)
                IN /\ new.name = name
                   /\ new.id = old.id
                   /\ new.description = old.description
                   /\ new.voice_id = old.voice_id
                   /\ new.label = old.label
                   /\ new.project_id = old.project_id
                   /\ DOMAIN voices' = DOMAIN voices
                   /\ \A other \in DOMAIN voices \ {voice_id} :
                         voices'[other] = voices[other]
                   /\ remoteCalls' = remoteCalls]_vars

C9_Witness ==
    /\ vret.handler = "rename_voice"
    /\ vret.status = 200
    /\ vret.body.name = "X"
    /\ FindVoice(voices, vret.body.id) = vret.body
    /\ \E other \in DOMAIN voices : other # vret.body.id /\ voices[other].name = "N"

\* C10: once delete_voice has found the row of an id, no listing of any
\* project's voices includes that id again, whether the remote deletion
\* succeeds or fails; the row is already gone when the remote call is made.
C10_DeletedStaysDeleted ==
    /\ \A voice_id \in deleteCalled : \A project_id \in Projects :
          \A voice \in VoicesOfProject(voices, project_id) : voice.id # voice_id
    /\ pendingDelete # NoVoice => FindVoice(voices, pendingDelete.id) = NoVoice

C10_Witness ==
    /\ vret.handler = "delete_voice"
    /\ vret.status = 500
    /\ deleteCalled # {}
    /\ pendingDelete = NoVoice
    /\ DOMAIN voices # {}

\* C11: a create_voice whose remote call fails, or whose remote response has
\* no voice_id, leaves the voices table as it was, answers with an error and
\* records an audit row with result "error"; a row is added to the voices
\* table only by a create_voice whose remote call succeeded, and it carries
\* the voice_id that call returned.
C11_CreateOnlyAfterRemoteSuccess ==
    [][/\ apilogs' # apilogs =>
             /\ Len(apilogs') = Len(apilogs) + 1
             /\ remoteCalls' = remoteCalls + 1
             /\ vret'.handler = "create_voice"
             /\ IF apilogs'[Len(apilogs')].result = "error"
                THEN /\ voices' = voices
                     /\ vret'.status = 500
                ELSE /\ apilogs'[Len(apilogs')].result = "ok"
                     /\ vret'.status = 200
                     /\ DOMAIN voices' = DOMAIN voices \cup {nextId}
                     /\ nextId \notin DOMAIN voices
                     /\ voices'[nextId].voice_id = RemoteVoiceId(remoteCalls')
                     /\ \A other \in DOMAIN voices : voices'[other] = voices[other]
       /\ (DOMAIN voices' \ DOMAIN voices # {}) =>
             /\ apilogs' # apilogs
             /\ apilogs'[Len(apilogs')].result = "ok"]_vars

C11_Witness ==
    /\ vret.handler = "create_voice"
    /\ vret.status = 500
    /\ vret.body = <<"ElevenLabs response did not contain a voice_id">>
    /\ Len(apilogs) = 2
    /\ apilogs[1].result = "ok"
    /\ apilogs[2].result = "error"
    /\ Cardinality(DOMAIN voices) = 1

\* C12: deleting an existing Voice answers with the success confirmation
\* also when the remote deletion fails: the remote failure is not surfaced.
C12_DeleteAlwaysConfirms ==
    (vret.handler = "delete_voice" /\ vret.status # 404)
        => /\ vret.status = 200
           /\ vret.body = "Voice deleted successfully"

\* C14: the model field of a result produced by the local engine names the
\* model loaded into the shared handle, which performed the transcription,
\* also when a later call asks for another model name than the loaded one.
C14_ModelFieldNamesLoadedModel ==
    \A p \in Procs : \A i \in 1..Len(frame[p].results) :
        frame[p].results[i].engine = "whisper"
            => frame[p].results[i].model = whisper_model

\* C15: a temporary file written for an item is gone when the attempt on the
\* item has ended, on the success path and on every failure path: between
\* attempts, and after any sequence of calls, no temporary file remains.
C15_NoTempFileLeft ==
    tempFiles = 0

====
